---- MODULE Spec2Model ----
(***************************************************************************)
(* A model of crates/duckdb/src/vtab/value.rs: the Value wrapper around a  *)
(* duckdb_value handle, its Drop, its accessors, to_vec and Display::fmt,  *)
(* together with the part of the DuckDB C API the wrapper calls.           *)
(***************************************************************************)
EXTENDS Integers, Sequences, FiniteSets

\* ------------------------------------------------------------------ bounds
\* Handles the foreign layer can allocate in one run.
MaxHandles == 3
\* Values producers create and hand over in one run.
MaxRoots == 1
\* Value objects the host program can construct in one run.
MaxValues == 3
\* Longest list value a producer hands over.
MaxList == 2
\* Scratch buffers the foreign layer can have allocated.
MaxBufs == 1
\* Most characters in the text drawn for a textual value.
MaxText == 3

VARIABLES
    heap,       \* foreign layer: handle -> [st, val, from, destroyCalls]
    pending,    \* raw handles a producer holds and has not yet handed over
    bufs,       \* foreign layer: scratch buffer -> [st, bytes]
    ownedTypes, \* logical types the component obtained as owner and has not destroyed
    vst,        \* Value object -> "none" | "alive"
    ptr,        \* Value object -> its ptr field
    wrapped,    \* Value object -> the handle it was constructed from
    dropped,    \* Value object -> whether Drop::drop has run on it
    last        \* what the last operation did and returned

vars == <<heap, pending, bufs, ownedTypes, vst, ptr, wrapped, dropped, last>>

\* std::ptr::null_mut(): the sentinel stored after release.
Null == 0
Handles == 1..MaxHandles
ValueIds == 1..MaxValues
BufIds == 1..MaxBufs

\* ------------------------------------------------------- 64-bit arithmetic
\* A magnitude below 2^64 is four 16-bit limbs, most significant first.
LimbBase == 256 * 256
ZeroMag == <<0, 0, 0, 0>>

MagLt(a, b) ==
    \E i \in 1..4 : a[i] < b[i] /\ \A j \in 1..(i - 1) : a[j] = b[j]

MagLeq(a, b) == a = b \/ MagLt(a, b)

\* The magnitude of a natural number below 2^31.
NatToMag(n) == <<0, 0, n \div LimbBase, n % LimbBase>>

\* 2^k - 1 for k in 0..64, and 2^k for k in 0..63, as magnitudes.
RECURSIVE Pow2(_)
Pow2(k) == IF k = 0 THEN 1 ELSE 2 * Pow2(k - 1)

MagOnes(k) ==
    [i \in 1..4 |->
        LET lo == 16 * (4 - i) IN
        IF k >= lo + 16 THEN LimbBase - 1
        ELSE IF k <= lo THEN 0 ELSE Pow2(k - lo) - 1]

MagPow2(k) ==
    [i \in 1..4 |->
        LET lo == 16 * (4 - i) IN
        IF k >= lo /\ k < lo + 16 THEN Pow2(k - lo) ELSE 0]

\* A signed integer: sign and magnitude (zero is never negative).
IntOf(neg, mag) == [neg |-> neg /\ mag # ZeroMag, exp |-> 0, mag |-> mag]
SmallInt(n) == IF n < 0 THEN IntOf(TRUE, NatToMag(-n)) ELSE IntOf(FALSE, NatToMag(n))

\* Long division of a magnitude by ten: <<quotient, remainder>>.
DivMod10(m) ==
    LET q1 == m[1] \div 10
        r1 == m[1] % 10
        q2 == (r1 * LimbBase + m[2]) \div 10
        r2 == (r1 * LimbBase + m[2]) % 10
        q3 == (r2 * LimbBase + m[3]) \div 10
        r3 == (r2 * LimbBase + m[3]) % 10
        q4 == (r3 * LimbBase + m[4]) \div 10
        r4 == (r3 * LimbBase + m[4]) % 10
    IN <<(<<q1, q2, q3, q4>>), r4>>

\* The decimal digits of a magnitude, as ASCII bytes.
RECURSIVE MagDigits(_)
MagDigits(m) ==
    LET qr == DivMod10(m) IN
    IF qr[1] = ZeroMag THEN <<48 + qr[2]>>
    ELSE Append(MagDigits(qr[1]), 48 + qr[2])

\* ---------------------------------------------------------- numeric values
\* A number is sign * mag * 2^exp. Integers and booleans have exp = 0; a
\* floating-point number is kept with mag odd (or zero), so equal numbers are
\* equal records.
Half(m) ==
    <<m[1] \div 2,
      ((m[1] % 2) * (LimbBase \div 2)) + (m[2] \div 2),
      ((m[2] % 2) * (LimbBase \div 2)) + (m[3] \div 2),
      ((m[3] % 2) * (LimbBase \div 2)) + (m[4] \div 2)>>

\* m + 1, for m below 2^64 - 1.
Inc(m) ==
    LET c4 == (m[4] + 1) \div LimbBase
        c3 == (m[3] + c4) \div LimbBase
        c2 == (m[2] + c3) \div LimbBase
    IN <<m[1] + c2, (m[2] + c3) % LimbBase, (m[3] + c4) % LimbBase, (m[4] + 1) % LimbBase>>

IsOdd(m) == m[4] % 2 = 1

\* The bit length and the trailing zero bits of one limb.
RECURSIVE LimbLen(_)
LimbLen(x) == IF x = 0 THEN 0 ELSE 1 + LimbLen(x \div 2)
RECURSIVE LimbZeros(_)
LimbZeros(x) == IF x % 2 = 1 THEN 0 ELSE 1 + LimbZeros(x \div 2)

BitLen(m) ==
    IF m = ZeroMag THEN 0
    ELSE LET i == CHOOSE j \in 1..4 : m[j] # 0 /\ \A l \in 1..(j - 1) : m[l] = 0
         IN 16 * (4 - i) + LimbLen(m[i])

\* The trailing zero bits of a magnitude other than zero.
TrailingZeros(m) ==
    LET i == CHOOSE j \in 1..4 : m[j] # 0 /\ \A l \in (j + 1)..4 : m[l] = 0
    IN 16 * (4 - i) + LimbZeros(m[i])

\* m div 2^k and m * 2^k (the product below 2^64), by whole limbs and then bits.
ShiftRight(m, k) ==
    IF k >= 64 THEN ZeroMag
    ELSE LET j == k \div 16
             b == k % 16
             w == [i \in 0..4 |-> IF i - j >= 1 THEN m[i - j] ELSE 0]
         IN [i \in 1..4 |-> ((w[i - 1] % Pow2(b)) * Pow2(16 - b)) + (w[i] \div Pow2(b))]

ShiftLeft(m, k) ==
    LET j == k \div 16
        b == k % 16
        w == [i \in 1..5 |-> IF i + j <= 4 THEN m[i + j] ELSE 0]
    IN [i \in 1..4 |-> ((w[i] * Pow2(b)) % LimbBase) + (w[i + 1] \div Pow2(16 - b))]

\* m / 2^k rounded to the nearest integer, ties to even (the default rounding of
\* the C casts and of nearbyint).
RoundShift(m, k) ==
    IF k = 0 THEN m
    ELSE IF k > 64 THEN ZeroMag
    ELSE LET upper == ShiftRight(m, k - 1)
             q == Half(upper)
             guard == IsOdd(upper)
             sticky == ShiftLeft(upper, k - 1) # m
         IN IF guard /\ (sticky \/ IsOdd(q)) THEN Inc(q) ELSE q

Canon(neg, mag, exp) ==
    IF mag = ZeroMag THEN [neg |-> FALSE, exp |-> 0, mag |-> ZeroMag]
    ELSE [neg |-> neg, exp |-> exp + TrailingZeros(mag),
          mag |-> ShiftRight(mag, TrailingZeros(mag))]

\* The quiet NaN the C API returns for a failed floating-point read.
NaNNum == [neg |-> FALSE, exp |-> 2047, mag |-> MagPow2(51)]

Max3(a, b, c) == IF a >= b /\ a >= c THEN a ELSE IF b >= c THEN b ELSE c

\* IEEE binary32 and binary64: significand bits, exponent of the smallest
\* subnormal, largest exponent.
FloatFormat(kind) ==
    IF kind = "FLOAT" THEN [p |-> 24, qmin |-> -149, emax |-> 127]
    ELSE [p |-> 53, qmin |-> -1074, emax |-> 1023]

\* A number cast to FLOAT or DOUBLE: [ok, num].
CastToFloat(n, kind) ==
    LET f == FloatFormat(kind)
        k == Max3(0, BitLen(n.mag) - f.p, f.qmin - n.exp)
        m == RoundShift(n.mag, k)
        e == n.exp + k
    IN IF n = NaNNum THEN [ok |-> TRUE, num |-> NaNNum]
       ELSE IF m # ZeroMag /\ e + BitLen(m) - 1 > f.emax
       THEN [ok |-> FALSE, num |-> NaNNum]
       ELSE [ok |-> TRUE, num |-> Canon(n.neg, m, e)]

KindSigned(kind) == kind \in {"TINYINT", "SMALLINT", "INTEGER", "BIGINT"}
KindBits(kind) ==
    CASE kind \in {"TINYINT", "UTINYINT"} -> 8
      [] kind \in {"SMALLINT", "USMALLINT"} -> 16
      [] kind \in {"INTEGER", "UINTEGER"} -> 32
      [] kind \in {"BIGINT", "UBIGINT"} -> 64

\* Whether sign * mag is a value of the integer kind.
IntFits(kind, neg, mag) ==
    IF neg /\ mag # ZeroMag
    THEN KindSigned(kind) /\ MagLeq(mag, MagPow2(KindBits(kind) - 1))
    ELSE MagLeq(mag, MagOnes(IF KindSigned(kind) THEN KindBits(kind) - 1
                             ELSE KindBits(kind)))

\* numeric_limits<T>::min(): what a failed integer read returns.
MinValue(kind) ==
    IF KindSigned(kind) THEN IntOf(TRUE, MagPow2(KindBits(kind) - 1))
    ELSE IntOf(FALSE, ZeroMag)

\* A number cast to an integer kind: [ok, num].
CastToInt(n, kind) ==
    LET over == n.exp > 0 /\ BitLen(n.mag) + n.exp > 64
        m == IF n.exp >= 0 THEN (IF over THEN ZeroMag ELSE ShiftLeft(n.mag, n.exp))
             ELSE RoundShift(n.mag, -n.exp)
    IN IF n = NaNNum \/ over \/ ~IntFits(kind, n.neg, m)
       THEN [ok |-> FALSE, num |-> MinValue(kind)]
       ELSE [ok |-> TRUE, num |-> IntOf(n.neg, m)]

\* DuckDB's default cast between the numeric kinds and BOOLEAN: [ok, num].
CastNum(n, kind) ==
    CASE kind = "BOOLEAN" ->
            [ok |-> TRUE,
             num |-> IntOf(FALSE, IF n.mag = ZeroMag THEN ZeroMag ELSE NatToMag(1))]
      [] kind \in {"FLOAT", "DOUBLE"} -> CastToFloat(n, kind)
      [] OTHER -> CastToInt(n, kind)

\* ------------------------------------------------------------ foreign values
\* What a duckdb_value holds: a type tag and, by tag, a number, a text (bytes)
\* or the elements of a list.
IntKinds == {"TINYINT", "UTINYINT", "SMALLINT", "USMALLINT",
             "INTEGER", "UINTEGER", "BIGINT", "UBIGINT"}
NumericKinds == IntKinds \cup {"BOOLEAN", "FLOAT", "DOUBLE"}
NoNum == IntOf(FALSE, ZeroMag)
Content(kind, num, text, elems) ==
    [kind |-> kind, num |-> num, text |-> text, elems |-> elems]
NoContent == Content("INVALID", NoNum, <<>>, <<>>)
NullContent == Content("SQLNULL", NoNum, <<>>, <<>>)
VarcharContent(bytes) == Content("VARCHAR", NoNum, bytes, <<>>)
ListContent(elems) == Content("LIST", NoNum, <<>>, elems)

\* The text DuckDB renders a value to (Value::ToString), as bytes.
RECURSIVE Render(_)
RECURSIVE RenderElems(_, _)
RenderElems(elems, i) ==
    IF i > Len(elems) THEN <<>>
    ELSE (IF i > 1 THEN <<44, 32>> ELSE <<>>)
         \o Render(elems[i]) \o RenderElems(elems, i + 1)
Render(c) ==
    CASE c.kind = "VARCHAR" -> c.text
      [] c.kind = "SQLNULL" -> <<78, 85, 76, 76>>
      [] c.kind = "BOOLEAN" ->
            IF c.num.mag = ZeroMag THEN <<102, 97, 108, 115, 101>>
            ELSE <<116, 114, 117, 101>>
      [] c.kind \in IntKinds ->
            (IF c.num.neg THEN <<45>> ELSE <<>>) \o MagDigits(c.num.mag)
      [] c.kind = "LIST" -> <<91>> \o RenderElems(c.elems, 1) \o <<93>>

\* ------------------------------------------------------------- foreign layer
FreeCell == [st |-> "free", val |-> NoContent, from |-> <<Null, 0>>, destroyCalls |-> 0]

FreeHandles(hp) == {h \in Handles : hp[h].st = "free"}

\* The handle the next allocation returns (addresses are not reused in a run).
FreshHandle(hp) == CHOOSE h \in FreeHandles(hp) : \A g \in FreeHandles(hp) : h <= g

\* duckdb_create_*: a new handle holding c.
LiveCell(c, from) == [st |-> "live", val |-> c, from |-> from, destroyCalls |-> 0]
Allocate(hp, h, c, from) == [hp EXCEPT ![h] = LiveCell(c, from)]

\* duckdb_destroy_value(&mut p): releases *p when it is set, a no-op on NULL; each
\* call on a handle is counted against it.
duckdb_destroy_value(hp, p) ==
    IF p = Null THEN hp
    ELSE [hp EXCEPT ![p].st = "destroyed", ![p].destroyCalls = @ + 1]

\* duckdb_get_list_size: the element count of a list, 0 for any other value.
duckdb_get_list_size(hp, p) ==
    IF hp[p].val.kind = "LIST" THEN Len(hp[p].val.elems) ELSE 0

\* duckdb_get_list_child(p, i): a new, independently owned handle holding a copy
\* of element i (0-based); <<heap, handle>>. NULL when i is out of range.
duckdb_get_list_child(hp, p, i) ==
    IF hp[p].val.kind = "LIST" /\ i < Len(hp[p].val.elems) /\ FreeHandles(hp) # {}
    THEN LET h == FreshHandle(hp) IN
         <<Allocate(hp, h, hp[p].val.elems[i + 1], <<p, i>>), h>>
    ELSE <<hp, Null>>

\* duckdb_get_bool, duckdb_get_int8, ..., duckdb_get_double (named here by the
\* kind read): the value cast to that kind, or the kind's failure value.
duckdb_get(kind, hp, p) == CastNum(hp[p].val.num, kind).num

\* duckdb_create_bool, duckdb_create_int8, ..., duckdb_create_double: the content
\* of a value created as kind from x, a value of that kind.
PrimContent(kind, x) == Content(kind, x, <<>>, <<>>)

\* duckdb_is_null_value
duckdb_is_null_value(hp, p) == hp[p].val.kind = "SQLNULL"

\* duckdb_get_value_type: a view of the value's own type, valid while the value
\* lives; nothing is allocated and the caller owns nothing.
duckdb_get_value_type(hp, p) == [borrowedFrom |-> p, id |-> hp[p].val.kind]

\* duckdb_create_logical_type: a logical type the caller owns and must destroy.
duckdb_create_logical_type(ty, id) == ty + 1

\* duckdb_get_type_id
duckdb_get_type_id(logical_type) == logical_type.id

\* duckdb_get_varchar: a malloc'ed, NUL-terminated copy of the rendered text;
\* <<bufs, buffer>>.
FreeBufs(bf) == {b \in BufIds : bf[b].st = "free"}
duckdb_get_varchar(hp, bf, p) ==
    LET b == CHOOSE x \in FreeBufs(bf) : \A y \in FreeBufs(bf) : x <= y IN
    <<[bf EXCEPT ![b] = [st |-> "live", bytes |-> Render(hp[p].val) \o <<0>>]], b>>

\* duckdb_free
duckdb_free(bf, b) == [bf EXCEPT ![b] = [st |-> "free", bytes |-> <<>>]]

\* -------------------------------------------------------------- the wrapper
\* What an operation did: the calls it made to the foreign layer and its result.
NoOp ==
    [op |-> "none", v |-> 0, before |-> Null, again |-> FALSE,
     destroys |-> <<>>, sizeCalls |-> 0, calls |-> <<>>, out |-> <<>>,
     gets |-> <<>>, frees |-> <<>>, fmt |-> [limited |-> FALSE, room |-> 0],
     written |-> <<>>, res |-> "none",
     retNum |-> NoNum, retBool |-> FALSE, retKind |-> "", typeView |-> [borrowedFrom |-> Null, id |-> ""]]

\* impl From<duckdb_value> for Value: Self { ptr }.
ValueFrom(p) == [ptr |-> p]

\* Drop::drop without the null check of line 35.
DropValue_Unguarded(hp, p) ==
    [heap |-> duckdb_destroy_value(hp, p), ptr |-> Null, destroys |-> <<p>>]

\* Drop::drop that only clears the field and never releases.
DropValue_Leak(hp, p) == [heap |-> hp, ptr |-> Null, destroys |-> <<>>]

\* impl Drop for Value, on a Value whose ptr is p:
\* [heap, ptr, destroys] after the run, destroys being the calls made.
DropValue(hp, p) ==
    LET call == p # Null IN
    [heap |-> IF call THEN duckdb_destroy_value(hp, p) ELSE hp,
     ptr |-> Null,
     destroys |-> IF call THEN <<p>> ELSE <<>>]

\* usize::MAX of a 64-bit target, and u64::try_into::<usize>().
UsizeMax == MagOnes(64)
TryIntoUsize(size) == MagLeq(NatToMag(size), UsizeMax)

\* The loop of to_vec pushing Value::from(self.ptr) instead of the child.
RECURSIVE ToVecLoop_WrapsSelf(_, _, _, _, _, _)
ToVecLoop_WrapsSelf(hp, self, i, size, calls, out) ==
    IF i >= size THEN [heap |-> hp, calls |-> calls, out |-> out]
    ELSE LET r == duckdb_get_list_child(hp, self, i) IN
         ToVecLoop_WrapsSelf(r[1], self, i + 1, size,
                             Append(calls, [idx |-> i, ret |-> r[2]]),
                             Append(out, ValueFrom(self)))

\* The loop of Value::to_vec from index i: [heap, calls, out], calls being the
\* duckdb_get_list_child calls made and out the Values pushed.
RECURSIVE ToVecLoop(_, _, _, _, _, _)
ToVecLoop(hp, self, i, size, calls, out) ==
    IF i >= size THEN [heap |-> hp, calls |-> calls, out |-> out]
    ELSE LET r == duckdb_get_list_child(hp, self, i) IN
         ToVecLoop(r[1], self, i + 1, size,
                   Append(calls, [idx |-> i, ret |-> r[2]]),
                   Append(out, ValueFrom(r[2])))

\* to_vec asking for the children at 1..=size instead of 0..size.
ToVecOf_FromOne(hp, self) ==
    LET size == duckdb_get_list_size(hp, self)
        r == ToVecLoop(hp, self, 1, size + 1, <<>>, <<>>)
    IN [res |-> "ok", heap |-> r.heap, sizeCalls |-> 1, calls |-> r.calls, out |-> r.out]

\* Value::to_vec on a Value whose ptr is self: [res, heap, sizeCalls, calls, out].
ToVecOf(hp, self) ==
    LET size == duckdb_get_list_size(hp, self) IN
    IF ~TryIntoUsize(size)
    THEN [res |-> "panic", heap |-> hp, sizeCalls |-> 1, calls |-> <<>>, out |-> <<>>]
    ELSE LET r == ToVecLoop(hp, self, 0, size, <<>>, <<>>) IN
         [res |-> "ok", heap |-> r.heap, sizeCalls |-> 1, calls |-> r.calls, out |-> r.out]

\* The Value objects not yet constructed, and the n lowest of them in order.
UnusedValues == {v \in ValueIds : vst[v] = "none"}
RECURSIVE LowestOf(_, _)
LowestOf(S, n) ==
    IF n = 0 \/ S = {} THEN <<>>
    ELSE LET m == CHOOSE x \in S : \A y \in S : x <= y IN
         <<m>> \o LowestOf(S \ {m}, n - 1)

Alive(v) == vst[v] = "alive"
\* A Value a caller may read: constructed, holding a handle the foreign layer
\* has not released.
Readable(v) == Alive(v) /\ ptr[v] # Null /\ heap[ptr[v]].st = "live"

\* --------------------------------------------------------------- rendering
\* CStr::from_ptr: the bytes before the first NUL.
RECURSIVE CStrFromPtr(_)
CStrFromPtr(bytes) ==
    IF bytes = <<>> \/ Head(bytes) = 0 THEN <<>>
    ELSE <<Head(bytes)>> \o CStrFromPtr(Tail(bytes))

IsCont(b) == b >= 128 /\ b <= 191
\* The width a UTF-8 lead byte announces (0: not a lead byte).
Utf8Width(b) ==
    CASE b < 128 -> 1
      [] b >= 194 /\ b <= 223 -> 2
      [] b >= 224 /\ b <= 239 -> 3
      [] b >= 240 /\ b <= 244 -> 4
      [] OTHER -> 0
\* Whether b may follow the lead byte as its second byte.
SecondOk(lead, b) ==
    CASE lead = 224 -> b >= 160 /\ b <= 191
      [] lead = 237 -> b >= 128 /\ b <= 159
      [] lead = 240 -> b >= 144 /\ b <= 191
      [] lead = 244 -> b >= 128 /\ b <= 143
      [] OTHER -> IsCont(b)

\* How many bytes from position i form a valid prefix of one encoded character,
\* and whether the character is complete: <<length, complete>>.
Utf8Chunk(bytes, i) ==
    LET w == Utf8Width(bytes[i])
        has(k) == i + k <= Len(bytes)
    IN IF w = 0 THEN <<1, FALSE>>
       ELSE IF w = 1 THEN <<1, TRUE>>
       ELSE IF ~has(1) \/ ~SecondOk(bytes[i], bytes[i + 1]) THEN <<1, FALSE>>
       ELSE IF w = 2 THEN <<2, TRUE>>
       ELSE IF ~has(2) \/ ~IsCont(bytes[i + 2]) THEN <<2, FALSE>>
       ELSE IF w = 3 THEN <<3, TRUE>>
       ELSE IF ~has(3) \/ ~IsCont(bytes[i + 3]) THEN <<3, FALSE>>
       ELSE <<4, TRUE>>

\* U+FFFD, encoded.
Replacement == <<239, 191, 189>>

\* CStr::to_string_lossy, from position i: valid characters are copied, each
\* maximal invalid prefix becomes one U+FFFD.
RECURSIVE LossyFrom(_, _)
LossyFrom(bytes, i) ==
    IF i > Len(bytes) THEN <<>>
    ELSE LET c == Utf8Chunk(bytes, i) IN
         (IF c[2] THEN SubSeq(bytes, i, i + c[1] - 1) ELSE Replacement)
         \o LossyFrom(bytes, i + c[1])
\* A decoding that replaces every byte outside ASCII.
ToStringLossy_AsciiOnly(bytes) ==
    IF \A i \in 1..Len(bytes) : bytes[i] < 128 THEN bytes
    ELSE LossyFrom([i \in 1..Len(bytes) |-> IF bytes[i] < 128 THEN bytes[i] ELSE 255], 1)

ToStringLossy(bytes) == LossyFrom(bytes, 1)

\* Formatter::write_str on a formatter whose sink takes `room` more bytes when
\* it is limited: [res, written]. A String sink is not limited.
StringSink == [limited |-> FALSE, room |-> 0]
WriteStr(f, str) ==
    IF ~f.limited \/ Len(str) <= f.room THEN [res |-> "ok", written |-> str]
    ELSE [res |-> "err", written |-> SubSeq(str, 1, f.room)]

\* Display::fmt returning early on a failed write (write!(..)?), before duckdb_free.
FmtOf_EarlyReturn(hp, bf, p, f) ==
    LET g == duckdb_get_varchar(hp, bf, p)
        varchar == g[2]
        c_str == CStrFromPtr(g[1][varchar].bytes)
        res == WriteStr(f, ToStringLossy(c_str))
    IN IF res.res = "err"
       THEN [bufs |-> g[1], gets |-> <<varchar>>, frees |-> <<>>,
             written |-> res.written, res |-> res.res]
       ELSE [bufs |-> duckdb_free(g[1], varchar), gets |-> <<varchar>>,
             frees |-> <<varchar>>, written |-> res.written, res |-> res.res]

\* Display::fmt discarding the result of write! and returning Ok(()).
FmtOf_SwallowsError(hp, bf, p, f) ==
    LET g == duckdb_get_varchar(hp, bf, p)
        varchar == g[2]
        c_str == CStrFromPtr(g[1][varchar].bytes)
        res == WriteStr(f, ToStringLossy(c_str))
    IN [bufs |-> duckdb_free(g[1], varchar), gets |-> <<varchar>>,
        frees |-> <<varchar>>, written |-> res.written, res |-> "ok"]

\* Display::fmt on a Value whose ptr is p: [bufs, gets, frees, written, res],
\* gets and frees being the buffers obtained and passed to duckdb_free.
FmtOf(hp, bf, p, f) ==
    LET g == duckdb_get_varchar(hp, bf, p)
        varchar == g[2]
        c_str == CStrFromPtr(g[1][varchar].bytes)
        res == WriteStr(f, ToStringLossy(c_str))
    IN [bufs |-> duckdb_free(g[1], varchar), gets |-> <<varchar>>,
        frees |-> <<varchar>>, written |-> res.written, res |-> res.res]

\* The accessors primitive_getters! generates: the kind each one's foreign read
\* function reads.
Getters == {"to_bool", "to_int8", "to_uint8", "to_int16", "to_uint16", "to_int32",
            "to_uint32", "to_int64", "to_uint64", "to_float", "to_double"}
\* The accessor table with to_uint64 bound to duckdb_get_int64.
primitive_getters_Swapped(name) ==
    CASE name = "to_bool" -> "BOOLEAN"
      [] name = "to_int8" -> "TINYINT"
      [] name = "to_uint8" -> "UTINYINT"
      [] name = "to_int16" -> "SMALLINT"
      [] name = "to_uint16" -> "USMALLINT"
      [] name = "to_int32" -> "INTEGER"
      [] name = "to_uint32" -> "UINTEGER"
      [] name = "to_int64" -> "BIGINT"
      [] name = "to_uint64" -> "BIGINT"
      [] name = "to_float" -> "FLOAT"
      [] name = "to_double" -> "DOUBLE"
primitive_getters(name) ==
    CASE name = "to_bool" -> "BOOLEAN"
      [] name = "to_int8" -> "TINYINT"
      [] name = "to_uint8" -> "UTINYINT"
      [] name = "to_int16" -> "SMALLINT"
      [] name = "to_uint16" -> "USMALLINT"
      [] name = "to_int32" -> "INTEGER"
      [] name = "to_uint32" -> "UINTEGER"
      [] name = "to_int64" -> "BIGINT"
      [] name = "to_uint64" -> "UBIGINT"
      [] name = "to_float" -> "FLOAT"
      [] name = "to_double" -> "DOUBLE"

\* logical_type_id obtaining a logical type of its own and never destroying it.
LogicalTypeIdOf_Owning(hp, ty, p) ==
    LET logical_type == duckdb_get_value_type(hp, p) IN
    [ret |-> duckdb_get_type_id(logical_type),
     ownedTypes |-> duckdb_create_logical_type(ty, logical_type.id),
     view |-> logical_type]

\* Value::logical_type_id on a Value whose ptr is p: [ret, ownedTypes, view].
LogicalTypeIdOf(hp, ty, p) ==
    LET logical_type == duckdb_get_value_type(hp, p) IN
    [ret |-> duckdb_get_type_id(logical_type), ownedTypes |-> ty, view |-> logical_type]

\* ------------------------------------------------------------------ actions
\* The list items of tests::test_value_to_vec, continued by the index.
TestItem(i) ==
    CASE i = 1 -> SmallInt(1)
      [] i = 2 -> SmallInt(-200)
      [] i = 3 -> SmallInt(2381292)
      [] OTHER -> SmallInt(i)
TestList(n) == ListContent([i \in 1..n |-> Content("BIGINT", TestItem(i), <<>>, <<>>)])

\* What a producer hands over: lists of every length, a text, a null.
Templates ==
    {TestList(n) : n \in 0..MaxList} \cup {VarcharContent(<<104, 105>>), NullContent}

Init ==
    /\ heap = [h \in Handles |-> FreeCell]
    /\ pending = {}
    /\ bufs = [b \in BufIds |-> [st |-> "free", bytes |-> <<>>]]
    /\ ownedTypes = 0
    /\ vst = [v \in ValueIds |-> "none"]
    /\ ptr = [v \in ValueIds |-> Null]
    /\ wrapped = [v \in ValueIds |-> Null]
    /\ dropped = [v \in ValueIds |-> FALSE]
    /\ last = NoOp

\* A collaborator creates a value (duckdb_create_varchar, duckdb_create_list_value,
\* duckdb_create_null_value) and holds its raw handle.
ProducerCreate(c) ==
    /\ FreeHandles(heap) # {}
    /\ Cardinality({h \in Handles : heap[h].st # "free" /\ heap[h].from[1] = Null}) < MaxRoots
    /\ LET h == FreshHandle(heap) IN
       /\ heap' = Allocate(heap, h, c, <<Null, 0>>)
       /\ pending' = pending \cup {h}
    /\ last' = NoOp
    /\ UNCHANGED <<bufs, ownedTypes, vst, ptr, wrapped, dropped>>

\* Value::from(p): the collaborator hands its handle (or a null pointer) over.
\* The construction contract is the caller's: a handle is handed over once and
\* used through no other path afterwards; from itself checks nothing.
From(p) ==
    /\ UnusedValues # {}
    /\ LET v == LowestOf(UnusedValues, 1)[1] IN
       /\ vst' = [vst EXCEPT ![v] = "alive"]
       /\ ptr' = [ptr EXCEPT ![v] = ValueFrom(p).ptr]
       /\ wrapped' = [wrapped EXCEPT ![v] = p]
       /\ last' = [NoOp EXCEPT !.op = "from", !.v = v, !.before = p, !.res = "ok"]
    /\ pending' = pending \ {p}
    /\ UNCHANGED <<heap, bufs, ownedTypes, dropped>>

\* Drop::drop runs on v (again, when it ran before).
Drop(v) ==
    /\ Alive(v)
    /\ LET r == DropValue(heap, ptr[v]) IN
       /\ heap' = r.heap
       /\ ptr' = [ptr EXCEPT ![v] = r.ptr]
       /\ last' = [NoOp EXCEPT !.op = "drop", !.v = v, !.before = ptr[v], !.res = "ok",
                               !.again = dropped[v], !.destroys = r.destroys]
    /\ dropped' = [dropped EXCEPT ![v] = TRUE]
    /\ UNCHANGED <<pending, bufs, ownedTypes, vst, wrapped>>

\* An accessor taking self by value: the Value is dropped when it returns.
Getter_Consuming(v, g) ==
    /\ Readable(v)
    /\ heap[ptr[v]].val.kind \in NumericKinds
    /\ last' = [NoOp EXCEPT !.op = g, !.v = v, !.before = ptr[v], !.res = "ok",
                            !.retNum = duckdb_get(primitive_getters(g), heap, ptr[v])]
    /\ heap' = DropValue(heap, ptr[v]).heap
    /\ ptr' = [ptr EXCEPT ![v] = Null]
    /\ UNCHANGED <<pending, bufs, ownedTypes, vst, wrapped, dropped>>

\* One of the eleven scalar accessors, on a numeric or boolean value (of the
\* accessor's kind or not: a mismatch is read through the foreign layer's cast).
Getter(v, g) ==
    /\ Readable(v)
    /\ heap[ptr[v]].val.kind \in NumericKinds
    /\ last' = [NoOp EXCEPT !.op = g, !.v = v, !.before = ptr[v], !.res = "ok",
                            !.retNum = duckdb_get(primitive_getters(g), heap, ptr[v])]
    /\ UNCHANGED <<heap, pending, bufs, ownedTypes, vst, ptr, wrapped, dropped>>

\* Value::is_null
IsNull(v) ==
    /\ Readable(v)
    /\ last' = [NoOp EXCEPT !.op = "is_null", !.v = v, !.before = ptr[v], !.res = "ok",
                            !.retBool = duckdb_is_null_value(heap, ptr[v])]
    /\ UNCHANGED <<heap, pending, bufs, ownedTypes, vst, ptr, wrapped, dropped>>

\* Value::logical_type_id
LogicalTypeId(v) ==
    /\ Readable(v)
    /\ LET r == LogicalTypeIdOf(heap, ownedTypes, ptr[v]) IN
       /\ ownedTypes' = r.ownedTypes
       /\ last' = [NoOp EXCEPT !.op = "logical_type_id", !.v = v, !.before = ptr[v],
                               !.res = "ok", !.retKind = r.ret, !.typeView = r.view]
    /\ UNCHANGED <<heap, pending, bufs, vst, ptr, wrapped, dropped>>

\* Value::to_vec: the children become Values of their own.
ToVec(v) ==
    /\ Readable(v)
    /\ LET n == duckdb_get_list_size(heap, ptr[v]) IN
       Cardinality(FreeHandles(heap)) >= n /\ Cardinality(UnusedValues) >= n
    /\ LET r == ToVecOf(heap, ptr[v])
           ids == LowestOf(UnusedValues, Len(r.out))
           new == {ids[i] : i \in 1..Len(ids)}
           at(w) == CHOOSE i \in 1..Len(ids) : ids[i] = w
       IN
       /\ heap' = r.heap
       /\ vst' = [w \in ValueIds |-> IF w \in new THEN "alive" ELSE vst[w]]
       /\ ptr' = [w \in ValueIds |-> IF w \in new THEN r.out[at(w)].ptr ELSE ptr[w]]
       /\ wrapped' = [w \in ValueIds |-> IF w \in new THEN r.out[at(w)].ptr ELSE wrapped[w]]
       /\ last' = [NoOp EXCEPT !.op = "to_vec", !.v = v, !.before = ptr[v],
                               !.res = r.res, !.sizeCalls = r.sizeCalls,
                               !.calls = r.calls, !.out = ids]
    /\ UNCHANGED <<pending, bufs, ownedTypes, dropped>>

\* Display::fmt into a formatter the caller supplies.
Fmt(v, f) ==
    /\ Readable(v)
    /\ FreeBufs(bufs) # {}
    /\ LET r == FmtOf(heap, bufs, ptr[v], f) IN
       /\ bufs' = r.bufs
       /\ last' = [NoOp EXCEPT !.op = "fmt", !.v = v, !.before = ptr[v], !.fmt = f,
                               !.gets = r.gets, !.frees = r.frees,
                               !.written = r.written, !.res = r.res]
    /\ UNCHANGED <<heap, pending, ownedTypes, vst, ptr, wrapped, dropped>>

\* ToString::to_string: Display::fmt into a String; an Err from fmt panics.
ToString(v) ==
    /\ Readable(v)
    /\ FreeBufs(bufs) # {}
    /\ LET r == FmtOf(heap, bufs, ptr[v], StringSink) IN
       /\ bufs' = r.bufs
       /\ last' = [NoOp EXCEPT !.op = "to_string", !.v = v, !.before = ptr[v],
                               !.fmt = StringSink, !.gets = r.gets, !.frees = r.frees,
                               !.written = r.written,
                               !.res = IF r.res = "ok" THEN "ok" ELSE "panic"]
    /\ UNCHANGED <<heap, pending, ownedTypes, vst, ptr, wrapped, dropped>>

\* The sinks a caller hands to Display::fmt: unlimited, full, one or four bytes left.
Formatters ==
    {StringSink} \cup {[limited |-> TRUE, room |-> r] : r \in {0, 1, 4}}

\* The handle lifecycle: values are produced, wrapped, decomposed and dropped.
Next ==
    \/ \E c \in Templates : ProducerCreate(c)
    \/ \E p \in pending \cup {Null} : From(p)
    \/ \E v \in ValueIds : Drop(v)
    \/ \E v \in ValueIds : ToVec(v)
    \/ \E v \in ValueIds : IsNull(v)

Spec == Init /\ [][Next]_vars

\* The state after a producer created c and Value::from wrapped its handle.
Wrapping(c) ==
    /\ heap = [h \in Handles |-> IF h = 1 THEN LiveCell(c, <<Null, 0>>) ELSE FreeCell]
    /\ pending = {}
    /\ bufs = [b \in BufIds |-> [st |-> "free", bytes |-> <<>>]]
    /\ ownedTypes = 0
    /\ vst = [v \in ValueIds |-> IF v = 1 THEN "alive" ELSE "none"]
    /\ ptr = [v \in ValueIds |-> IF v = 1 THEN ValueFrom(1).ptr ELSE Null]
    /\ wrapped = [v \in ValueIds |-> IF v = 1 THEN 1 ELSE Null]
    /\ dropped = [v \in ValueIds |-> FALSE]
    /\ last = [NoOp EXCEPT !.op = "from", !.v = 1, !.before = 1, !.res = "ok"]

\* Reading: one wrapped value, every read operation on it and on the children
\* to_vec extracts, and drops.
ReadTemplates == Templates \cup {PrimContent("BIGINT", TestItem(2))}
InitRead == \E c \in ReadTemplates : Wrapping(c)
NextRead ==
    \/ \E v \in ValueIds : Drop(v)
    \/ \E v \in ValueIds, g \in Getters : Getter(v, g)
    \/ \E v \in ValueIds : IsNull(v)
    \/ \E v \in ValueIds : LogicalTypeId(v)
    \/ \E v \in ValueIds : ToVec(v)
    \/ \E v \in ValueIds, f \in Formatters : Fmt(v, f)
    \/ \E v \in ValueIds : ToString(v)
SpecRead == InitRead /\ [][NextRead]_vars

\* Primitive round trips: a value created as kind K from X (duckdb_create_bool,
\* ..., duckdb_create_double), read by the accessors.
PrimInputs ==
    {<<"BOOLEAN", SmallInt(0)>>, <<"BOOLEAN", SmallInt(1)>>}
    \cup {<<k, MinValue(k)>> : k \in IntKinds}
    \cup {<<k, IntOf(FALSE, MagOnes(IF KindSigned(k) THEN KindBits(k) - 1
                                     ELSE KindBits(k)))>> : k \in IntKinds}
    \cup {<<k, SmallInt(0)>> : k \in IntKinds}
    \cup {<<k, SmallInt(-1)>> : k \in {"TINYINT", "SMALLINT", "INTEGER", "BIGINT"}}
    \cup {<<"TINYINT", SmallInt(-42)>>, <<"UTINYINT", SmallInt(255)>>,
          <<"SMALLINT", SmallInt(-1000)>>, <<"USMALLINT", SmallInt(50000)>>,
          <<"INTEGER", SmallInt(-200000)>>,
          <<"UINTEGER", IntOf(FALSE, <<0, 0, 61035, 10240>>)>>,
          <<"BIGINT", IntOf(TRUE, <<31974, 27728, 57988, 0>>)>>,
          <<"UBIGINT", IntOf(FALSE, <<63948, 55457, 50440, 0>>)>>}
    \cup {<<"FLOAT", Canon(FALSE, ZeroMag, 0)>>,
          <<"FLOAT", Canon(FALSE, <<0, 0, 200, 62915>>, -22)>>,
          <<"FLOAT", Canon(TRUE, NatToMag(3), -1)>>,
          <<"FLOAT", Canon(FALSE, MagOnes(24), 104)>>,
          <<"FLOAT", Canon(FALSE, NatToMag(1), -149)>>}
    \cup {<<"DOUBLE", Canon(FALSE, ZeroMag, 0)>>,
          <<"DOUBLE", Canon(FALSE, <<1, 23536, 39258, 44921>>, -47)>>,
          <<"DOUBLE", Canon(FALSE, <<0, 0, 200, 62915>>, -22)>>,
          <<"DOUBLE", Canon(TRUE, NatToMag(3), -1)>>,
          <<"DOUBLE", Canon(FALSE, MagOnes(53), 971)>>,
          <<"DOUBLE", Canon(FALSE, NatToMag(1), -1074)>>}
InitPrim == \E in \in PrimInputs : Wrapping(PrimContent(in[1], in[2]))
NextPrim ==
    \/ \E v \in ValueIds, g \in Getters : Getter(v, g)
    \/ \E v \in ValueIds : Drop(v)
SpecPrim == InitPrim /\ [][NextPrim]_vars

\* Text round trips: a value created by duckdb_create_varchar from a C string of
\* valid text, rendered.
Chars == {<<97>>, <<195, 169>>, <<226, 130, 172>>, <<240, 159, 166, 134>>}
RECURSIVE TextsOf(_)
TextsOf(n) ==
    IF n = 0 THEN {<<>>}
    ELSE TextsOf(n - 1) \cup {t \o c : t \in TextsOf(n - 1), c \in Chars}
ValidTexts == TextsOf(MaxText)
duckdb_create_varchar(text) == VarcharContent(CStrFromPtr(text \o <<0>>))
InitText == \E text \in ValidTexts : Wrapping(duckdb_create_varchar(text))
NextText ==
    \/ \E v \in ValueIds, f \in Formatters : Fmt(v, f)
    \/ \E v \in ValueIds : ToString(v)
    \/ \E v \in ValueIds : Drop(v)
SpecText == InitText /\ [][NextText]_vars

\* ------------------------------------------------------------------- claims
AllDropped == \A v \in ValueIds : Alive(v) => dropped[v]
ReadOps == Getters \cup {"is_null", "logical_type_id", "to_vec", "fmt", "to_string"}

\* C1: a run of Drop::drop on a Value wrapped around a non-null handle calls
\* duckdb_destroy_value once, on that handle, the first time, and leaves ptr
\* null; a later run, and any run on a Value wrapped around null, calls it zero
\* times.
C1_DropReleasesOnce ==
    /\ \A v \in ValueIds :
          Alive(v) /\ dropped[v] =>
             /\ ptr[v] = Null
             /\ wrapped[v] # Null => heap[wrapped[v]].destroyCalls = 1
    /\ last.op = "drop" =>
          last.destroys = IF last.again \/ wrapped[last.v] = Null THEN <<>>
                          ELSE <<wrapped[last.v]>>
\* A Value wrapped around a handle has been dropped a second time.
C1_Witness == last.op = "drop" /\ last.again /\ wrapped[last.v] # Null

C3_ToVecInOrder ==
    last.op = "to_vec" =>
        LET n == duckdb_get_list_size(heap, last.before) IN
        /\ last.res = "ok"
        /\ last.sizeCalls = 1
        /\ Len(last.calls) = n
        /\ Len(last.out) = n
        /\ \A i \in 1..n :
              /\ last.calls[i].idx = i - 1
              /\ last.calls[i].ret # Null
              /\ ptr[last.out[i]] = last.calls[i].ret
              /\ heap[last.calls[i].ret].from = <<last.before, i - 1>>
              /\ heap[last.calls[i].ret].val = heap[last.before].val.elems[i]
        /\ \A i, j \in 1..n : i # j => last.out[i] # last.out[j]
\* to_vec has just returned the two children of a two-element list.
C3_Witness == last.op = "to_vec" /\ Len(last.out) = 2 /\ Len(last.calls) = 2

\* C4: whatever the order of the drops, every handle is passed to
\* duckdb_destroy_value at most once and only by the drop of the Value holding
\* it, and once every Value is dropped every handle the component obtained has
\* been released.
C4_EachHandleReleasedOnce ==
    /\ \A h \in Handles : heap[h].destroyCalls <= 1
    /\ \A v \in ValueIds :
          Alive(v) /\ ptr[v] # Null =>
             heap[ptr[v]].st = "live" /\ heap[ptr[v]].destroyCalls = 0
    /\ last.op = "drop" =>
          \A i \in 1..Len(last.destroys) : last.destroys[i] = wrapped[last.v]
    /\ AllDropped =>
          \A h \in Handles :
             (heap[h].st # "free" /\ h \notin pending) =>
                heap[h].st = "destroyed" /\ heap[h].destroyCalls = 1
\* to_vec ran twice on one parent, and the parent and both children are dropped.
C4_Witness ==
    /\ AllDropped
    /\ pending = {}
    /\ \E g, h \in Handles :
          /\ g # h
          /\ heap[g].from[1] # Null
          /\ heap[g].from = heap[h].from
          /\ heap[g].st = "destroyed" /\ heap[h].st = "destroyed"
          /\ heap[heap[g].from[1]].st = "destroyed"

\* C5: a call of Display::fmt obtains one buffer from duckdb_get_varchar and
\* passes that buffer to duckdb_free once before it returns, whether the write
\* to the formatter succeeds or fails.
C5_FmtFreesItsBuffer ==
    /\ last.op \in {"fmt", "to_string"} =>
          Len(last.gets) = 1 /\ last.frees = last.gets
    /\ \A b \in BufIds : bufs[b].st = "free"
\* fmt has returned an error after part of the text was written.
C5_Witness == last.op = "fmt" /\ last.res = "err" /\ last.written # <<>>

\* The length of the text Display::fmt hands to the formatter for handle h.
RenderedLen(h) == Len(Render(heap[h].val))

\* C7, as claimed: no operation returns an error or panics.
C7_NoErrorEver == last.res # "err" /\ last.res # "panic"

\* C7, amended: no operation panics, and the only error returned is that of
\* Display::fmt, exactly when the write to the caller's formatter fails.
C7_ErrOnlyFromFailedWrite ==
    /\ last.res # "panic"
    /\ last.op # "none" => last.res \in {"ok", "err"}
    /\ last.res = "err" => last.op = "fmt"
    /\ last.op = "fmt" =>
          (last.res = "err" <=>
              (last.fmt.limited /\ RenderedLen(last.before) > last.fmt.room))
\* fmt has returned the error of a formatter that took nothing.
C7_Witness ==
    /\ last.op = "fmt" /\ last.res = "err"
    /\ last.fmt.limited /\ last.fmt.room = 0 /\ last.written = <<>>

C10_ReadsKeepOwnership ==
    /\ last.op \in ReadOps =>
          /\ ptr[last.v] = last.before
          /\ wrapped[last.v] = last.before
          /\ ~dropped[last.v]
          /\ Readable(last.v)
          /\ heap[last.before].destroyCalls = 0
          /\ last.destroys = <<>>
    /\ \A v \in ValueIds :
          Alive(v) /\ wrapped[v] # Null =>
             heap[wrapped[v]].destroyCalls = IF dropped[v] THEN 1 ELSE 0
\* A child is read by its accessor after its parent was decomposed and dropped.
C10_Witness ==
    /\ last.op = "to_int64"
    /\ heap[last.before].from[1] # Null
    /\ heap[heap[last.before].from[1]].st = "destroyed"
    /\ Readable(last.v)

\* The accessor the API offers for each primitive kind.
AccessorOf(kind) ==
    CASE kind = "BOOLEAN" -> "to_bool"
      [] kind = "TINYINT" -> "to_int8"
      [] kind = "UTINYINT" -> "to_uint8"
      [] kind = "SMALLINT" -> "to_int16"
      [] kind = "USMALLINT" -> "to_uint16"
      [] kind = "INTEGER" -> "to_int32"
      [] kind = "UINTEGER" -> "to_uint32"
      [] kind = "BIGINT" -> "to_int64"
      [] kind = "UBIGINT" -> "to_uint64"
      [] kind = "FLOAT" -> "to_float"
      [] kind = "DOUBLE" -> "to_double"
      [] OTHER -> "none"

\* C6: a value created as kind K from X and read with the accessor of kind K
\* returns X.
C6_PrimitiveRoundTrip ==
    (last.op \in Getters /\ last.op = AccessorOf(heap[last.before].val.kind))
        => last.retNum = heap[last.before].val.num
\* to_uint64 has returned 18,446,744,073,709,551,615.
C6_Witness ==
    /\ last.op = "to_uint64"
    /\ heap[last.before].val.kind = "UBIGINT"
    /\ last.retNum = IntOf(FALSE, MagOnes(64))

\* C8: rendering a textual value of valid text S yields S.
C8_TextRoundTrip ==
    (/\ heap[1].val.kind = "VARCHAR"
     /\ last.op = "to_string" \/ (last.op = "fmt" /\ last.res = "ok"))
        => last.res = "ok" /\ last.written = heap[last.before].val.text
\* to_string has returned a text of one-, two- and three-byte characters.
C8_Witness ==
    /\ last.op = "to_string"
    /\ last.written = <<97, 195, 169, 226, 130, 172>>

====
